---- MODULE Spec2Model ----
(***************************************************************************)
(* A model of software_bugfind.py: the GitHub Java bug collector.          *)
(*                                                                         *)
(*   SpecApi    api_get, one step per source line that talks to the server *)
(*              or sleeps, driven by the loop of commit_has_build_file.    *)
(*   SpecPage   the pagination loops of search_repos_language_java and     *)
(*              search_issues_for_repo, one step per page.                 *)
(*   SpecMain   main, with api_get as one step that returns or raises.     *)
(*   SpecIssue  the loop over issues of main for one repo: the part of     *)
(*              SpecMain from line 245 on, with larger answers.            *)
(*                                                                         *)
(* Time is counted in quarter seconds, the unit of SLEEP_BETWEEN_REQUESTS. *)
(***************************************************************************)
EXTENDS Integers, Sequences, FiniteSets, TLC

VARIABLES
  \* ---- api_get (lines 44-58) and its caller commit_has_build_file
  apc,          \* position inside api_get: idle, get1, wait, get2, raise_for_status, sleep
  r_status,     \* r.status_code of the response held in r
  r_reset,      \* r.headers.get("X-RateLimit-Reset") of the response held in r
  r_body,       \* what r.json() would give for the response held in r
  first_status, \* status_code of the first response of the current call
  first_reset,  \* reset header of the first response of the current call
  nreq,         \* requests.get calls issued by the current call of api_get
  asteps,       \* steps the current call of api_get has taken
  now,          \* time.time(), in quarter seconds
  lastEvent,    \* the last thing the process did to the network: none, request, sleep
  api_out,      \* how the last call of api_get ended: none, ok, http_error, other_error
  bf_i,         \* commit_has_build_file: index of fname in candidates
  bf_res,       \* commit_has_build_file: running, true, false, raised
  \* ---- the pagination loops (lines 60-88)
  pc,           \* where the program is
  per_page,     \* parameter per_page of the running search
  max_n,        \* parameter max_repos / max_issues of the running search
  page,         \* local page
  items,        \* local repos / items: what the pages gave so far
  last_len,     \* len of the page received last in the running search, -1 before any
  requested,    \* pages requested by the running search
  ret,          \* the list the search returned
  \* ---- find_commits_referencing_issue (lines 90-148)
  max_results,  \* parameter max_results
  commits,      \* local commits: the sha of every entry appended, in order
  prs_left,     \* items of the PR search not yet iterated over
  cands,        \* the list returned (out); in main, the local commits
  \* ---- main (lines 220-315)
  max_repos,    \* args.max_repos
  max_issues,   \* args.max_issues_per_repo
  repos,        \* local repos
  repo_i,       \* position of the loop over repos
  issues,       \* local issues
  issue_i,      \* position of the loop over issues
  c_i,          \* position of the loop over commits
  fetched,      \* the calls of get_commit_details made for the current issue
  has_build,    \* local has_build
  all_records,  \* local all_records
  out_json,     \* what save_json wrote, "unwritten" before
  out_csv       \* what save_csv wrote, "unwritten" before

callVars == <<apc, r_status, r_reset, r_body, first_status, first_reset, nreq, asteps,
              now, lastEvent, api_out>>

apiVars == <<callVars, bf_i, bf_res>>

searchVars == <<per_page, max_n, page, items, last_len, requested, ret>>

pageVars == <<pc, searchVars>>

findVars == <<max_results, commits, prs_left, cands>>

mainVars == <<max_repos, max_issues, repos, repo_i, issues, issue_i, c_i, fetched,
              has_build, all_records, out_json, out_csv>>

vars == <<apiVars, pageVars, findVars, mainVars>>

-----------------------------------------------------------------------------
(* Bounds and program constants *)

\* SLEEP_BETWEEN_REQUESTS = 0.25 s, i.e. one quarter second
SLEEP_BETWEEN_REQUESTS == 1

\* quarter seconds per second
Quarter == 4

\* how far ahead of int(time.time()) the server's reset timestamp may lie (seconds)
ResetAheads == {0 - 2, 0, 7}

\* the X-RateLimit-Reset header: missing (headers.get gives None), present but
\* not a number (int(reset) raises ValueError), or a timestamp in seconds
NoReset == [kind |-> "absent", val |-> 0]
BadReset == [kind |-> "garbage", val |-> 0]
IntReset(n) == [kind |-> "int", val |-> n]

\* the largest per_page and the largest max_repos / max_issues a search is called with
MaxPerPage == 2
MaxWanted == 3

\* the largest max_results find_commits_referencing_issue is called with; main
\* passes MAX_COMMITS_PER_ISSUE (5 in the source), which the model scales to it
MaxResults == 2
MAX_COMMITS_PER_ISSUE == MaxResults

\* the longest item list a commit search or a PR's commit list answers with,
\* and the most PRs a PR search answers with
MaxList == 3
MaxPrs == 1

\* the commit shas the server knows; NoSha is a missing, null or empty sha
Shas == {"sha1", "sha2"}
NoSha == "None"

\* the largest --max-repos and --max-issues-per-repo main is run with; the
\* searches of main ask for pages of REPOS_PER_PAGE (50) and 100 items, which
\* the model scales to MaxPerPage
MaxRepos == 2
MaxIssues == 1

\* candidates of commit_has_build_file, line 158 (pom.xml appears twice)
BuildFileCandidates == <<"pom.xml", "build.gradle", "build.gradle.kts", "settings.gradle", "pom.xml">>

-----------------------------------------------------------------------------
(* api_get *)

\* int(time.time())
IntTime(t) == t \div Quarter

\* what the server may answer at time t; "conn" is requests.get raising
\* (ConnectionError, Timeout), which is not an HTTPError
Responses(t) ==
  {[status |-> 200, reset |-> NoReset, body |-> b] : b \in {"file", "dir", "badjson"}}
  \cup {[status |-> s, reset |-> NoReset, body |-> "none"] : s \in {404, 500}}
  \cup {[status |-> s, reset |-> x, body |-> "none"] :
          s \in {403, 429},
          x \in {NoReset, BadReset} \cup {IntReset(IntTime(t) + a) : a \in ResetAheads}}

\* a 429 taken for a rate limit as well
IsRateLimitedOr429(status, reset) == status \in {403, 429} /\ reset /= NoReset

\* line 47 and line 50: the response is a 403 that carries a reset header
IsRateLimited(status, reset) == status = 403 /\ reset /= NoReset

\* line 51: the seconds added to the distance to the reset timestamp
ResetSlack == 3

\* line 52: the shortest wait, in seconds
MinWait == 5

\* the shortest wait, whatever the header says
RateLimitWaitMinimum(reset, t) == MinWait

\* lines 51-52: wait = max(int(reset) - int(time.time()) + 3, 5), in seconds
RateLimitWait(reset, t) ==
  LET w == reset.val - IntTime(t) + ResetSlack IN IF w > MinWait THEN w ELSE MinWait

\* lines 47-56: where api_get goes with its first response
AfterFirst(status, reset) ==
  IF IsRateLimited(status, reset) THEN "wait" ELSE "raise_for_status"

\* a retry that is itself checked for the rate limit
AfterRetryAgain(status, reset) ==
  IF IsRateLimited(status, reset) THEN "wait" ELSE "raise_for_status"

\* lines 55-56: the response of the retry goes straight to raise_for_status
AfterRetry(status, reset) == "raise_for_status"

\* line 56: r.raise_for_status() raises HTTPError for 4xx and 5xx
RaisesForStatus(status) == status >= 400

\* line 46: the first requests.get
ApiGet1 ==
  /\ apc = "get1"
  /\ asteps' = asteps + 1
  /\ nreq' = nreq + 1
  /\ lastEvent' = "request"
  /\ \/ /\ apc' = "idle"
        /\ api_out' = "other_error"
        /\ UNCHANGED <<r_status, r_reset, r_body, first_status, first_reset>>
     \/ \E resp \in Responses(now) :
          /\ r_status' = resp.status
          /\ r_reset' = resp.reset
          /\ r_body' = resp.body
          /\ first_status' = resp.status
          /\ first_reset' = resp.reset
          /\ apc' = AfterFirst(resp.status, resp.reset)
          /\ UNCHANGED api_out
  /\ UNCHANGED <<now, bf_i, bf_res>>
  /\ UNCHANGED <<pageVars, findVars, mainVars>>

\* lines 51-54: compute the wait and sleep; int(reset) raises ValueError on garbage
ApiWait ==
  /\ apc = "wait"
  /\ asteps' = asteps + 1
  /\ IF r_reset = BadReset
       THEN /\ apc' = "idle"
            /\ api_out' = "other_error"
            /\ UNCHANGED <<now, lastEvent>>
       ELSE /\ now' = now + Quarter * RateLimitWait(r_reset, now)
            /\ lastEvent' = "sleep"
            /\ apc' = "get2"
            /\ UNCHANGED api_out
  /\ UNCHANGED <<r_status, r_reset, r_body, first_status, first_reset, nreq, bf_i, bf_res>>
  /\ UNCHANGED <<pageVars, findVars, mainVars>>

\* line 55: the retry
ApiGet2 ==
  /\ apc = "get2"
  /\ asteps' = asteps + 1
  /\ nreq' = nreq + 1
  /\ lastEvent' = "request"
  /\ \/ /\ apc' = "idle"
        /\ api_out' = "other_error"
        /\ UNCHANGED <<r_status, r_reset, r_body>>
     \/ \E resp \in Responses(now) :
          /\ r_status' = resp.status
          /\ r_reset' = resp.reset
          /\ r_body' = resp.body
          /\ apc' = AfterRetry(resp.status, resp.reset)
          /\ UNCHANGED api_out
  /\ UNCHANGED <<first_status, first_reset, now, bf_i, bf_res>>
  /\ UNCHANGED <<pageVars, findVars, mainVars>>

\* line 56
ApiRaiseForStatus ==
  /\ apc = "raise_for_status"
  /\ asteps' = asteps + 1
  /\ IF RaisesForStatus(r_status)
       THEN apc' = "idle" /\ api_out' = "http_error"
       ELSE apc' = "sleep" /\ UNCHANGED api_out
  /\ UNCHANGED <<r_status, r_reset, r_body, first_status, first_reset, nreq, now,
                 lastEvent, bf_i, bf_res>>
  /\ UNCHANGED <<pageVars, findVars, mainVars>>

\* lines 57-58: the courtesy sleep, then r.json() (ValueError on a body that is not JSON)
ApiSleepReturn ==
  /\ apc = "sleep"
  /\ asteps' = asteps + 1
  /\ now' = now + SLEEP_BETWEEN_REQUESTS
  /\ lastEvent' = "sleep"
  /\ apc' = "idle"
  /\ api_out' = IF r_body = "badjson" THEN "other_error" ELSE "ok"
  /\ UNCHANGED <<r_status, r_reset, r_body, first_status, first_reset, nreq, bf_i, bf_res>>
  /\ UNCHANGED <<pageVars, findVars, mainVars>>

-----------------------------------------------------------------------------
(* commit_has_build_file, lines 156-168, calling api_get step by step *)

\* line 162: the call of api_get for candidates[bf_i]
BfCall ==
  /\ bf_res = "running"
  /\ apc = "idle"
  /\ api_out = "none"
  /\ bf_i <= Len(BuildFileCandidates)
  /\ apc' = "get1"
  /\ nreq' = 0
  /\ asteps' = 0
  /\ first_status' = 0
  /\ first_reset' = NoReset
  /\ UNCHANGED <<r_status, r_reset, r_body, now, lastEvent, api_out, bf_i, bf_res>>
  /\ UNCHANGED <<pageVars, findVars, mainVars>>

\* lines 159-168: what the loop does with the way api_get ended.
\* out is ok, http_error or other_error; isFile is data.get("type") == "file"
BfAfter(i, out, isFile) ==
  IF out = "ok" /\ isFile THEN [i |-> i, res |-> "true"]
  ELSE IF out = "other_error" THEN [i |-> i, res |-> "raised"]
  ELSE IF i = Len(BuildFileCandidates) THEN [i |-> i, res |-> "false"]
  ELSE [i |-> i + 1, res |-> "running"]

BfHandle ==
  /\ bf_res = "running"
  /\ apc = "idle"
  /\ api_out /= "none"
  /\ LET a == BfAfter(bf_i, api_out, r_body = "file") IN
       /\ bf_i' = a.i
       /\ bf_res' = a.res
  /\ api_out' = "none"
  /\ UNCHANGED <<apc, r_status, r_reset, r_body, first_status, first_reset, nreq, asteps,
                 now, lastEvent>>
  /\ UNCHANGED <<pageVars, findVars, mainVars>>

\* no call of api_get made yet, at time t
ApiIdle(t) ==
  /\ apc = "idle"
  /\ r_status = 0
  /\ r_reset = NoReset
  /\ r_body = "none"
  /\ first_status = 0
  /\ first_reset = NoReset
  /\ nreq = 0
  /\ asteps = 0
  /\ now = t
  /\ lastEvent = "none"
  /\ api_out = "none"
  /\ bf_i = 1
  /\ bf_res = "running"

\* no search called yet
NoSearch ==
  /\ per_page = 0
  /\ max_n = 0
  /\ page = 0
  /\ items = <<>>
  /\ last_len = 0 - 1
  /\ requested = 0
  /\ ret = <<>>

\* find_commits_referencing_issue not called yet
NoFind ==
  /\ max_results = MAX_COMMITS_PER_ISSUE
  /\ commits = <<>>
  /\ prs_left = 0
  /\ cands = <<>>

\* the locals of main before line 234, for the arguments mr and mi
MainLocals(mr, mi) ==
  /\ max_repos = mr
  /\ max_issues = mi
  /\ repos = <<>>
  /\ repo_i = 0
  /\ issues = <<>>
  /\ issue_i = 0
  /\ c_i = 0
  /\ fetched = <<>>
  /\ has_build = FALSE
  /\ all_records = <<>>
  /\ out_json = "unwritten"
  /\ out_csv = "unwritten"

InitApi ==
  /\ \E t \in 0 .. (Quarter - 1) : ApiIdle(t)
  /\ pc = "commit_has_build_file"
  /\ NoSearch
  /\ NoFind
  /\ MainLocals(0, 0)

NextApi ==
  \/ BfCall
  \/ ApiGet1
  \/ ApiWait
  \/ ApiGet2
  \/ ApiRaiseForStatus
  \/ ApiSleepReturn
  \/ BfHandle

SpecApi == InitApi /\ [][NextApi]_vars

-----------------------------------------------------------------------------
(* search_repos_language_java and search_issues_for_repo, one page per step. *)
(* api_get is one step here: it returns data or raises.                      *)

\* the ways a call of api_get ends: line 58, line 56 (HTTPError), or another
\* exception (requests.get failing at lines 46/55, int(reset) at 51, r.json() at 58)
ApiOutcomes == {"ok", "http_error", "other_error"}
ApiErrors == {"http_error", "other_error"}

Min(a, b) == IF a < b THEN a ELSE b

\* xs[:n]
Take(xs, n) == SubSeq(xs, 1, Min(Len(xs), IF n > 0 THEN n ELSE 0))

\* the sequences over S of length at most n
SeqsUpTo(S, n) == UNION {[1 .. k -> S] : k \in 0 .. n}

\* the pages the server may answer a search with: the platform caps a page at
\* per_page items; one item more is allowed for, to cover a server that does not
ServerPages(S, pp) == SeqsUpTo(S, pp + 1)

\* a page that never counts as short
ShortPageNever(n, pp) == FALSE

\* lines 70 and 84: len(items) < per_page
ShortPage(n, pp) == n < pp

\* lines 61-63 and 76-78: the locals are set and the while condition is tested
\* for the first time; with nothing wanted the function returns the empty list
EnterSearch(loop, returned, pp, mx) ==
  /\ per_page' = pp
  /\ max_n' = mx
  /\ page' = 1
  /\ items' = <<>>
  /\ last_len' = 0 - 1
  /\ requested' = 0
  /\ ret' = <<>>
  /\ pc' = IF 0 < mx THEN loop ELSE returned

\* one iteration of the while loop of lines 63-72 / 78-86, and the return of
\* line 73 / 88 when the loop ends. emptyBreaks is line 67-68, which only
\* search_repos_language_java has.
SearchPage(loop, returned, S, emptyBreaks) ==
  /\ pc = loop
  /\ requested' = requested + 1
  /\ \/ \E e \in ApiErrors :
          /\ pc' = "uncaught_exception"
          /\ UNCHANGED <<page, items, last_len, ret>>
     \/ \E hits \in ServerPages(S, per_page) :
          LET all == IF emptyBreaks /\ hits = <<>> THEN items ELSE items \o hits
              stop == \/ emptyBreaks /\ hits = <<>>
                      \/ ShortPage(Len(hits), per_page)
                      \/ ~(Len(all) < max_n)
          IN /\ items' = all
             /\ last_len' = Len(hits)
             /\ IF stop
                  THEN /\ ret' = Take(all, max_n)
                       /\ pc' = returned
                       /\ UNCHANGED page
                  ELSE /\ page' = page + 1
                       /\ UNCHANGED <<pc, ret>>
  /\ UNCHANGED <<per_page, max_n>>

\* search_repos_language_java, lines 60-73
ReposPage ==
  /\ SearchPage("search_repos", "repos_returned", {"repo"}, TRUE)
  /\ UNCHANGED <<apiVars, findVars, mainVars>>

\* search_issues_for_repo, lines 75-88; an item is TRUE when it has the key
\* "pull_request"
IssuesPage ==
  /\ SearchPage("search_issues", "issues_returned", BOOLEAN, FALSE)
  /\ UNCHANGED <<apiVars, findVars, mainVars>>

\* a caller of either search, with any per_page >= 1 and any max
CallSearch ==
  /\ pc = "caller"
  /\ \E pp \in 1 .. MaxPerPage, mx \in 0 .. MaxWanted :
       \/ EnterSearch("search_repos", "repos_returned", pp, mx)
       \/ EnterSearch("search_issues", "issues_returned", pp, mx)
  /\ UNCHANGED <<apiVars, findVars, mainVars>>

InitPage ==
  /\ ApiIdle(0)
  /\ pc = "caller"
  /\ NoSearch
  /\ NoFind
  /\ MainLocals(0, 0)

NextPage ==
  \/ CallSearch
  \/ ReposPage
  \/ IssuesPage

SpecPage == InitPage /\ [][NextPage]_vars

\* the program is sequential and api_get always ends: a page that can be
\* requested is requested
SpecPageFair == SpecPage /\ WF_vars(NextPage)

SearchRunning == pc \in {"search_repos", "search_issues"}

\* C1: the pagination loop of either search terminates, and no page is requested
\* after a page that returned fewer items than per_page.
C1_PaginationTerminates ==
  /\ <>(pc \in {"repos_returned", "issues_returned", "uncaught_exception"})
  /\ [][(last_len >= 0 /\ last_len < per_page) => requested' = requested]_vars
  /\ [](SearchRunning => (requested * per_page < max_n /\ requested < max_n))

C1_Witness ==
  /\ pc = "issues_returned"
  /\ requested = 2
  /\ last_len = 0
  /\ per_page = 2
  /\ Len(items) < max_n

-----------------------------------------------------------------------------
(* find_commits_referencing_issue, lines 90-148. api_get is one step. *)

ShaOrNone == Shas \cup {NoSha}

\* a sha that is never taken as seen
SeenNever(sha, seen) == FALSE

\* line 142: c["sha"] in seen
SeenBefore(sha, seen) == sha \in seen

\* lines 139-147: the loop over commits from position i on
RECURSIVE DedupeLoop(_, _, _, _, _)
DedupeLoop(cs, i, seen, out, mr) ==
  IF i > Len(cs) THEN out
  ELSE IF cs[i] = NoSha THEN DedupeLoop(cs, i + 1, seen, out, mr)
  ELSE IF SeenBefore(cs[i], seen) THEN DedupeLoop(cs, i + 1, seen, out, mr)
  ELSE LET out2 == Append(out, cs[i]) IN
         IF Len(out2) >= mr THEN out2
         ELSE DedupeLoop(cs, i + 1, seen \cup {cs[i]}, out2, mr)

\* lines 136-148
Dedupe(cs, mr) == DedupeLoop(cs, 1, {}, <<>>, mr)

\* lines 136-148, and the return to line 250 of main
FcReturn(cs) ==
  /\ cands' = Dedupe(cs, max_results)
  /\ pc' = "got_commits"

\* lines 99-113: the commit search; only items with a sha are appended
FcCommitSearch ==
  /\ pc = "fc_commit_search"
  /\ \/ \E e \in ApiErrors :
          \* except Exception: pass
          /\ commits' = <<>>
          /\ IF 0 < max_results
               THEN pc' = "fc_pr_search" /\ UNCHANGED cands
               ELSE FcReturn(<<>>)
     \/ \E found \in SeqsUpTo(ShaOrNone, MaxList) :
          LET cs == SelectSeq(found, LAMBDA x : x /= NoSha) IN
            /\ commits' = cs
            /\ IF Len(cs) < max_results
                 THEN pc' = "fc_pr_search" /\ UNCHANGED cands
                 ELSE FcReturn(cs)
  /\ UNCHANGED <<prs_left, max_results, apiVars, searchVars, mainVars>>

\* lines 114-117 and 133-134: the PR search
FcPrSearch ==
  /\ pc = "fc_pr_search"
  /\ \/ \E e \in ApiErrors :
          /\ FcReturn(commits)
          /\ UNCHANGED prs_left
     \/ \E n \in 0 .. MaxPrs :
          /\ prs_left' = n
          /\ IF n = 0 THEN FcReturn(commits)
                      ELSE pc' = "fc_pr_loop" /\ UNCHANGED cands
  /\ UNCHANGED <<commits, max_results, apiVars, searchVars, mainVars>>

\* what one PR of lines 117-132 appends, and whether it ends in an exception:
\* no pull_request url, or neither merge_commit_sha nor commits_url (nothing);
\* api_get raising for the PR or for its commit list (nothing, exception);
\* a merge_commit_sha; the first max_results commits of the PR, or, when an
\* entry of the commit list makes line 132 raise, those before it (exception)
PrOutcomes(mr) ==
  {[app |-> <<sha>>, exc |-> FALSE] : sha \in Shas}
  \cup {[app |-> Take(l, mr), exc |-> x] : l \in SeqsUpTo(ShaOrNone, MaxList),
                                          x \in BOOLEAN}

\* lines 117-134: one PR of the loop
FcPr ==
  /\ pc = "fc_pr_loop"
  /\ \E o \in PrOutcomes(max_results) :
       /\ commits' = commits \o o.app
       /\ IF o.exc \/ prs_left = 1
            THEN prs_left' = 0 /\ FcReturn(commits \o o.app)
            ELSE prs_left' = prs_left - 1 /\ UNCHANGED <<pc, cands>>
  /\ UNCHANGED <<max_results, apiVars, searchVars, mainVars>>

-----------------------------------------------------------------------------
(* main, lines 220-315. api_get is one step. *)

\* REPOS_PER_PAGE (line 28) and per_page=100 (line 242), scaled
REPOS_PER_PAGE == MaxPerPage
ISSUES_PER_PAGE == MaxPerPage

\* the locals of a search that has returned are gone
ForgetSearch ==
  /\ per_page' = 0
  /\ max_n' = 0
  /\ page' = 0
  /\ items' = <<>>
  /\ last_len' = 0 - 1
  /\ requested' = 0
  /\ ret' = <<>>

\* line 234
MainSearchRepos ==
  /\ pc = "main"
  /\ EnterSearch("search_repos", "repos_returned", REPOS_PER_PAGE, max_repos)
  /\ UNCHANGED <<apiVars, findVars, mainVars>>

\* lines 234-238
MainGotRepos ==
  /\ pc = "repos_returned"
  /\ repos' = ret
  /\ repo_i' = 1
  /\ pc' = "repo_loop"
  /\ ForgetSearch
  /\ UNCHANGED <<apiVars, findVars, max_repos, max_issues, issues, issue_i,
                 c_i, fetched, has_build, all_records, out_json, out_csv>>

\* lines 238-242: the next repo, or the end of the loop
MainNextRepo ==
  /\ pc = "repo_loop"
  /\ IF repo_i > Len(repos)
       THEN pc' = "save_json" /\ UNCHANGED searchVars
       ELSE EnterSearch("search_issues", "issues_returned", ISSUES_PER_PAGE, max_issues)
  /\ UNCHANGED <<apiVars, findVars, mainVars>>

\* lines 242-245
MainGotIssues ==
  /\ pc = "issues_returned"
  /\ issues' = ret
  /\ issue_i' = 1
  /\ pc' = "issue_loop"
  /\ ForgetSearch
  /\ UNCHANGED <<apiVars, findVars, max_repos, max_issues, repos, repo_i,
                 c_i, fetched, has_build, all_records, out_json, out_csv>>

\* lines 245-250 and 96-97: the next issue: a pull request is skipped, an issue
\* is handed to find_commits_referencing_issue; after the last, the next repo
MainNextIssue ==
  /\ pc = "issue_loop"
  /\ IF issue_i > Len(issues)
       THEN /\ repo_i' = repo_i + 1
            /\ issues' = <<>>
            /\ issue_i' = 0
            /\ pc' = "repo_loop"
       ELSE IF issues[issue_i]
       THEN /\ issue_i' = issue_i + 1
            /\ UNCHANGED <<pc, repo_i, issues>>
       ELSE /\ pc' = "fc_commit_search"
            /\ UNCHANGED <<repo_i, issues, issue_i>>
  /\ UNCHANGED <<apiVars, searchVars, findVars, max_repos, max_issues, repos, c_i,
                 fetched, has_build, all_records, out_json, out_csv>>

\* lines 254-263: the record of an issue without commit
NullRecord(r, i) ==
  [repo |-> r, issue |-> i, commit_sha |-> NoSha, commit_message |-> "None",
   commit_date |-> "None", patch |-> "None", commit_has_build_file |-> FALSE,
   commit_check_success |-> FALSE]

\* lines 289-298: the record of a commit; message, date and patch are what the
\* commit's details hold
CommitRecord(r, i, sha, hb, ck) ==
  [repo |-> r, issue |-> i, commit_sha |-> sha, commit_message |-> "details",
   commit_date |-> "details", patch |-> "details", commit_has_build_file |-> hb,
   commit_check_success |-> ck]

\* lines 250-267
MainGotCommits ==
  /\ pc = "got_commits"
  /\ IF cands = <<>>
       THEN /\ all_records' = Append(all_records, NullRecord(repo_i, issue_i))
            /\ pc' = "issue_done"
            /\ UNCHANGED c_i
       ELSE /\ c_i' = 1
            /\ pc' = "commit_loop"
            /\ UNCHANGED all_records
  /\ commits' = <<>>
  /\ UNCHANGED <<apiVars, searchVars, max_results, prs_left, cands, max_repos, max_issues, repos, repo_i,
                 issues, issue_i, fetched, has_build, out_json, out_csv>>

\* line 268: the loop over commits moves to the next commit, or ends
NextCommit ==
  IF c_i = Len(cands)
    THEN pc' = "issue_done" /\ UNCHANGED c_i
    ELSE pc' = "commit_loop" /\ c_i' = c_i + 1

\* lines 268-273 and 150-154: get_commit_details; a failure skips the commit
MainDetails ==
  /\ pc = "commit_loop"
  /\ \E o \in ApiOutcomes :
       /\ fetched' = Append(fetched, [sha |-> cands[c_i], ok |-> (o = "ok")])
       /\ IF o = "ok"
            THEN /\ pc' = "build_file"
                 /\ bf_i' = 1
                 /\ bf_res' = "running"
                 /\ UNCHANGED c_i
            ELSE /\ NextCommit
                 /\ UNCHANGED <<bf_i, bf_res>>
  /\ UNCHANGED <<callVars, searchVars, findVars, max_repos, max_issues, repos, repo_i,
                 issues, issue_i, has_build, all_records, out_json, out_csv>>

\* lines 285 and 156-168: one candidate of commit_has_build_file; an exception
\* other than HTTPError leaves commit_has_build_file and main
MainBuildFile ==
  /\ pc = "build_file"
  /\ \E o \in ApiOutcomes, isFile \in BOOLEAN :
       LET a == BfAfter(bf_i, o, isFile) IN
         /\ bf_i' = IF a.res = "running" THEN a.i ELSE 1
         /\ bf_res' = "running"
         /\ pc' = CASE a.res = "running" -> "build_file"
                     [] a.res = "raised" -> "uncaught_exception"
                     [] OTHER -> "status"
         /\ has_build' = IF a.res = "running" THEN has_build ELSE (a.res = "true")
  /\ UNCHANGED <<callVars, searchVars, findVars, max_repos, max_issues, repos, repo_i,
                 issues, issue_i, c_i, fetched, all_records, out_json, out_csv>>

\* a loop over commits that is never left early
StopsNever(hb, ck) == FALSE

\* line 301
StopsAt(hb, ck) == hb /\ ck

\* only a commit that has a build file and succeeded checks is recorded
RecordOnlyRunnable(ck) ==
  /\ all_records' = IF has_build /\ ck
                      THEN Append(all_records,
                                  CommitRecord(repo_i, issue_i, cands[c_i], has_build, ck))
                      ELSE all_records
  /\ has_build' = FALSE
  /\ IF StopsAt(has_build, ck)
       THEN pc' = "issue_done" /\ UNCHANGED c_i
       ELSE NextCommit

\* lines 289-303: the record is appended, and the loop left if the commit has a
\* build file and its checks succeeded
Record(ck) ==
  /\ all_records' = Append(all_records,
                            CommitRecord(repo_i, issue_i, cands[c_i], has_build, ck))
  /\ has_build' = FALSE
  /\ IF StopsAt(has_build, ck)
       THEN pc' = "issue_done" /\ UNCHANGED c_i
       ELSE NextCommit

\* lines 287 and 172-178: the combined status
MainStatus ==
  /\ pc = "status"
  /\ \E o \in ApiOutcomes, success \in BOOLEAN :
       IF o = "ok" /\ success
         THEN Record(TRUE)
         ELSE pc' = "check_runs" /\ UNCHANGED <<c_i, all_records, has_build>>
  /\ UNCHANGED <<apiVars, searchVars, findVars, max_repos, max_issues, repos, repo_i,
                 issues, issue_i, fetched, out_json, out_csv>>

\* lines 180-191 and 289-303: the check runs
MainCheckRuns ==
  /\ pc = "check_runs"
  /\ \E o \in ApiOutcomes, success \in BOOLEAN : Record(o = "ok" /\ success)
  /\ UNCHANGED <<apiVars, searchVars, findVars, max_repos, max_issues, repos, repo_i,
                 issues, issue_i, fetched, out_json, out_csv>>

\* line 245: the loop over issues moves on
MainIssueDone ==
  /\ pc = "issue_done"
  /\ issue_i' = issue_i + 1
  /\ pc' = "issue_loop"
  /\ cands' = <<>>
  /\ c_i' = 0
  /\ fetched' = <<>>
  /\ UNCHANGED <<apiVars, searchVars, max_results, commits, prs_left, max_repos,
                 max_issues, repos, repo_i, issues, has_build, all_records, out_json,
                 out_csv>>

\* line 309
MainSaveJson ==
  /\ pc = "save_json"
  /\ out_json' = all_records
  /\ pc' = "save_csv"
  /\ UNCHANGED <<apiVars, searchVars, findVars, max_repos, max_issues, repos, repo_i,
                 issues, issue_i, c_i, fetched, has_build, all_records, out_csv>>

\* line 314
MainSaveCsv ==
  /\ pc = "save_csv"
  /\ out_csv' = all_records
  /\ pc' = "done"
  /\ UNCHANGED <<apiVars, searchVars, findVars, max_repos, max_issues, repos, repo_i,
                 issues, issue_i, c_i, fetched, has_build, all_records, out_json>>

IssueSteps ==
  \/ MainNextIssue
  \/ FcCommitSearch
  \/ FcPrSearch
  \/ FcPr
  \/ MainGotCommits
  \/ MainDetails
  \/ MainBuildFile
  \/ MainStatus
  \/ MainCheckRuns
  \/ MainIssueDone

InitMain ==
  /\ ApiIdle(0)
  /\ pc = "main"
  /\ NoSearch
  /\ NoFind
  /\ \E mr \in 0 .. MaxRepos, mi \in 0 .. MaxIssues : MainLocals(mr, mi)

NextMain ==
  \/ MainSearchRepos
  \/ ReposPage
  \/ MainGotRepos
  \/ MainNextRepo
  \/ IssuesPage
  \/ MainGotIssues
  \/ MainNextIssue
  \/ FcCommitSearch
  \/ FcPrSearch
  \/ FcPr
  \/ MainGotCommits
  \/ MainDetails
  \/ MainBuildFile
  \/ MainStatus
  \/ MainCheckRuns
  \/ MainIssueDone
  \/ MainSaveJson
  \/ MainSaveCsv

SpecMain == InitMain /\ [][NextMain]_vars

\* main at line 245 for its first repo, whatever issues the search returned
InitIssue ==
  /\ ApiIdle(0)
  /\ pc = "issue_loop"
  /\ NoSearch
  /\ NoFind
  /\ max_repos = 1
  /\ max_issues = MaxIssues
  /\ repos = <<"repo">>
  /\ repo_i = 1
  /\ issues \in SeqsUpTo(BOOLEAN, MaxIssues)
  /\ issue_i = 1
  /\ c_i = 0
  /\ fetched = <<>>
  /\ has_build = FALSE
  /\ all_records = <<>>
  /\ out_json = "unwritten"
  /\ out_csv = "unwritten"

SpecIssue == InitIssue /\ [][IssueSteps]_vars

-----------------------------------------------------------------------------
(* Claims about find_commits_referencing_issue and main *)

NoDup(xs) == \A i, j \in 1 .. Len(xs) : i /= j => xs[i] /= xs[j]

\* the records of the issue the loop over issues is at
Rows == SelectSeq(all_records, LAMBDA rec : rec.repo = repo_i /\ rec.issue = issue_i)

\* the calls of get_commit_details that returned
OkFetched == SelectSeq(fetched, LAMBDA f : f.ok)

Runnable(rec) == rec.commit_has_build_file /\ rec.commit_check_success

\* C2: the list find_commits_referencing_issue returns holds no sha twice (and
\* no missing sha), whatever the searches gave and wherever they failed, so no
\* sha is detail-fetched twice for one issue.
C2_NoRepeatedSha ==
  /\ NoDup(cands)
  /\ \A k \in 1 .. Len(cands) : cands[k] \in Shas
  /\ NoDup([k \in 1 .. Len(fetched) |-> fetched[k].sha])

C2_Witness ==
  /\ pc = "got_commits"
  /\ Len(commits) = 3
  /\ commits[1] = commits[2]
  /\ prs_left = 0
  /\ Len(cands) = 2

\* C3 as stated: an issue with a non-empty candidate list gets exactly one
\* record per candidate.
C3_OneRowPerCandidate ==
  (pc = "issue_done" /\ cands /= <<>>) => Len(Rows) = Len(cands)

\* C3 amended: an issue with a non-empty candidate list gets exactly one record
\* per candidate whose details were fetched, in order, among the candidates the
\* loop visited; that is at most one per candidate, and one per candidate
\* exactly when every candidate was visited and fetched.
C3_OneRowPerFetchedCandidate ==
  (pc = "issue_done" /\ cands /= <<>>)
    => /\ Len(Rows) = Len(OkFetched)
       /\ \A k \in 1 .. Len(Rows) : Rows[k].commit_sha = OkFetched[k].sha
       /\ Len(fetched) <= Len(cands)
       /\ Len(Rows) <= Len(cands)
       /\ Len(Rows) = Len(cands) <=> Len(OkFetched) = Len(cands)

C3_Witness ==
  /\ pc = "issue_done"
  /\ Len(cands) = 2
  /\ Len(fetched) = 2
  /\ Len(Rows) = 1
  /\ ~fetched[1].ok

\* C4: an issue for which no commit is recorded has exactly one record, with
\* null commit fields and both flags False; so every processed issue has at
\* least one record.
C4_EveryIssueHasARow ==
  pc = "issue_done"
    => /\ Len(Rows) >= 1
       /\ (\A k \in 1 .. Len(Rows) : Rows[k].commit_sha = NoSha)
             => Rows = <<NullRecord(repo_i, issue_i)>>

\* C7: an error at any stage is caught and skipped: no exception leaves main,
\* which so reaches save_json and save_csv.
C7_NoErrorLeavesMain == pc /= "uncaught_exception"

\* C10: the candidates are visited in list order, and a record with both flags
\* True is the last record of its issue: the loop has stopped at it and no later
\* candidate is detail-fetched.
C10_StopsAtFirstRunnable ==
  /\ Len(fetched) <= Len(cands)
  /\ \A k \in 1 .. Len(fetched) : fetched[k].sha = cands[k]
  /\ \A k \in 1 .. Len(all_records) :
       Runnable(all_records[k])
         => /\ k < Len(all_records)
                 => <<all_records[k + 1].repo, all_records[k + 1].issue>>
                      /= <<all_records[k].repo, all_records[k].issue>>
            /\ (all_records[k].repo = repo_i /\ all_records[k].issue = issue_i)
                 => /\ pc = "issue_done"
                    /\ fetched[Len(fetched)].sha = all_records[k].commit_sha
                    /\ c_i = Len(fetched)

C10_Witness ==
  /\ pc = "issue_done"
  /\ Len(cands) = 2
  /\ Len(fetched) = 1
  /\ Len(Rows) = 1
  /\ Runnable(Rows[1])

-----------------------------------------------------------------------------
(* Claims about api_get, checked under SpecApi *)

InCall == apc /= "idle"

\* C5 as stated: whenever api_get receives a 403 it waits until the reset time
\* and retries, so a 403 is never taken to raise_for_status (nor the call ended)
\* with a single request issued.
C5_Every403IsRetried ==
  (first_status = 403 /\ nreq = 1) => apc \in {"wait", "get2"}

\* C5 amended: when the first response is a 403 that carries a numeric
\* X-RateLimit-Reset header, api_get sleeps past the reset time and then issues
\* the request once more; a 403 without the header is taken to raise_for_status
\* after the single request, with no wait.
C5_403WithResetIsRetried ==
  /\ (first_status = 403 /\ first_reset.kind = "int" /\ nreq = 1)
        => apc \in {"wait", "get2"}
  /\ apc = "get2"
        => /\ first_status = 403
           /\ first_reset.kind = "int"
           /\ lastEvent = "sleep"
           /\ now >= Quarter * first_reset.val
  /\ (first_status = 403 /\ first_reset = NoReset)
        => /\ nreq = 1
           /\ apc \in {"raise_for_status", "idle"}
           /\ lastEvent = "request"
           /\ api_out \in {"none", "http_error"}

C5_Witness ==
  /\ apc = "sleep"
  /\ nreq = 2
  /\ first_status = 403
  /\ first_reset.kind = "int"
  /\ first_reset.val > IntTime(now) - MinWait

\* C6 as stated: a 429 is handled by backoff and a retry, and is not raised to
\* the caller without a retry.
C6_429IsRetried ==
  (first_status = 429 /\ nreq = 1) => apc \in {"wait", "get2"}

\* C6 amended: a 429 is never retried: api_get issues the single request, does
\* not sleep, and raises HTTPError from raise_for_status.
C6_429IsRaisedWithoutRetry ==
  first_status = 429
    => /\ nreq = 1
       /\ apc \in {"raise_for_status", "idle"}
       /\ lastEvent = "request"
       /\ api_out \in {"none", "http_error"}

C6_Witness ==
  /\ first_status = 429
  /\ first_reset.kind = "int"
  /\ apc = "idle"
  /\ api_out = "http_error"

\* C8: every HTTP request is followed by a sleep before the next HTTP request
\* is issued, also when the request ended in an HTTP error the caller skips.
C8_SleepBeforeNextRequest ==
  apc \in {"get1", "get2"} => lastEvent /= "request"

\* C9: a call of api_get issues at most two requests and ends within five
\* steps (request, wait, retry, raise_for_status, courtesy sleep): a second 403
\* is raised, not waited on.
C9_AtMostTwoRequests ==
  /\ nreq <= 2
  /\ asteps <= 5
  /\ InCall => ENABLED (ApiGet1 \/ ApiWait \/ ApiGet2 \/ ApiRaiseForStatus \/ ApiSleepReturn)
  /\ (nreq = 2 /\ r_status = 403 /\ ~InCall) => api_out \in {"none", "http_error", "other_error"}

C9_Witness ==
  /\ nreq = 2
  /\ first_status = 403
  /\ r_status = 403
  /\ r_reset.kind = "int"
  /\ apc = "idle"
  /\ api_out = "http_error"

====
